---- MODULE Spec2Model ----
(***************************************************************************)
(* A model of ruSAT's DPLL engine (src/src/dpll.rs) over the clause and    *)
(* system store of src/src/cnf_system.rs.                                  *)
(*                                                                         *)
(* A literal is a nonzero integer, a clause (CNFClause) is a set of        *)
(* literals (BTreeSet<isize>), a system (CNFSystem) is a set of clauses    *)
(* (HashSet<CNFClause>).  The traversal order of a HashSet is arbitrary:   *)
(* wherever the code iterates over one, the model chooses the order with   *)
(* \E.  A BTreeSet is traversed in increasing order, so its first element  *)
(* is its minimum.                                                         *)
(*                                                                         *)
(* concurrent_dpll is recursive and runs its branches in threads that the  *)
(* caller joins; the model keeps the chain of active calls in `stack`,     *)
(* innermost call last.                                                    *)
(***************************************************************************)
EXTENDS Integers, Sequences, FiniteSets

\* Bounds of the model.
NumVars    == 3   \* variables are 1..NumVars
MaxClauses == 1   \* clauses of an arbitrary input system
MaxBudget  == 3   \* initial thread_count is 0 or MaxBudget
MaxLit     == 2   \* literals given to the clause store are -MaxLit..MaxLit
MaxSysLit  == 1   \* literals of the clauses handed to a system
MaxAdds    == 2   \* add() calls that build a clause handed to a system
MaxStore   == 2   \* different clauses a system is given
MaxLines   == 2   \* lines main() reads from its input

VARIABLES
    stack,        \* active calls of concurrent_dpll, outermost first
    result,       \* what the outermost call returned
    nthreads,     \* number of threads spawned so far
    sys0,         \* the system the outermost call was given
    units0,       \* the units the outermost call was given
    budget0,      \* the thread_count the outermost call was given
    lastProp,     \* the last call of concurrent_dpll_propagate and its outcome
    lastCombine,  \* the last decision that was combined and its outcome
    clause,       \* a CNFClause: its `literals`, in the order of the BTreeSet
    clause2,      \* a second CNFClause
    clauses,      \* a CNFSystem: its `clauses`
    ctor,         \* the constructor `clause` was made with
    ghost,        \* the sets the operations made so far denote
    last,         \* the last CNFClause operation and what it returned
    lastSys,      \* the last CNFSystem operation and what it returned
    main,         \* main(): the parser's locals and what the program printed
    basic         \* what basic_dpll returned for the system of the engine

engineVars ==
    <<stack, result, nthreads, sys0, units0, budget0, lastProp, lastCombine>>

storeVars == <<clause, clause2, clauses, ctor, ghost, last, lastSys>>

driverVars == <<main, basic>>

vars == <<stack, result, nthreads, sys0, units0, budget0, lastProp, lastCombine,
          clause, clause2, clauses, ctor, ghost, last, lastSys, main, basic>>

\* no CNFClause operation has been made
NoLast ==
    [op |-> "none", which |-> 0, literal |-> 0, ret |-> FALSE,
     panicked |-> FALSE, present |-> FALSE, before |-> <<>>]

\* no CNFSystem operation has been made
NoLastSys ==
    [op |-> "none", clause |-> <<>>, ret |-> FALSE, present |-> FALSE,
     before |-> {}, asc |-> TRUE]

\* what the two clauses and the system denote: sets of literals and a set
\* of such sets; asc tells that every add() so far to the clause was of a
\* literal greater than all it held
NoGhost ==
    [lits |-> {}, lits2 |-> {}, asc |-> TRUE, asc2 |-> TRUE, clauses |-> {}]

\* main() before it has read a line: `system`, `units` and
\* `contains_tautologies` are its locals; nlines counts the lines read, pc
\* is "read" in the loop over the lines, "run" while the engine runs and
\* "exit" at the end; outcome is what was printed and code the exit code.
\* seen_tautology and contents tell what the lines read so far denote: that
\* one of them held a literal and its negation, and the sets of literals of
\* the others that held a literal.
NoMain ==
    [system |-> {}, units |-> {}, contains_tautologies |-> FALSE,
     nlines |-> 0, pc |-> "read", outcome |-> "none", code |-> 0,
     seen_tautology |-> FALSE, contents |-> {}]

\* basic_dpll has not been called
NoBasic == [called |-> FALSE, verdict |-> "none", interpretation |-> {}]

\* main() and basic_dpll are not part of the run.
DriverIdle ==
    /\ main = NoMain
    /\ basic = NoBasic

\* The store as the engine runs: the engine's systems are the values the
\* store denotes, and no clause is under construction.
StoreIdle ==
    /\ clause = <<>>
    /\ clause2 = <<>>
    /\ clauses = {}
    /\ ctor = "new"
    /\ ghost = NoGhost
    /\ last = NoLast
    /\ lastSys = NoLastSys

----------------------------------------------------------------------------
\* cnf_system.rs

\* enum ClauseType
ClauseType == {"Unknown", "Tautology", "Satisfiable", "Unsatisfiable"}

Lits == {l \in (0 - NumVars)..NumVars : l # 0}

\* CNFClause::is_tautology
IsTautology(c) == \E each_literal \in {x \in c : x < 0} : (0 - each_literal) \in c

\* The clauses the parser hands over: neither empty nor tautological.
Clauses == {c \in SUBSET Lits : c # {} /\ ~IsTautology(c)}

\* CNFClause::get_unit, as the set of the zero or one literals it returns
GetUnit(c) == IF Cardinality(c) = 1 THEN c ELSE {}

\* the literals of the unit clauses of a system (main.rs collects them
\* while it reads the clauses)
UnitsOf(system) == UNION {GetUnit(c) : c \in system}

\* first element of a BTreeSet<isize>: the least literal
First(c) == CHOOSE l \in c : \A m \in c : l <= m

\* All systems of at most k clauses.
RECURSIVE SystemsUpTo(_)
SystemsUpTo(k) ==
    IF k = 0 THEN {{}}
    ELSE LET P == SystemsUpTo(k - 1)
         IN  P \cup {s \cup {c} : s \in P, c \in Clauses}

\* The complete block over two variables: the four clauses that hold one
\* literal of each; no assignment satisfies all four.
Block(v, w) == {{a, b} : a \in {v, 0 - v}, b \in {w, 0 - w}}

\* A complete block, or one with a single clause missing.
Blocks ==
    UNION {UNION {{Block(v, w) \ d : d \in {{}} \cup {{c} : c \in Block(v, w)}} :
                  w \in (v + 1)..NumVars} : v \in 1..NumVars}

\* The input systems: every system of at most MaxClauses clauses, and every
\* block extended by at most one further clause.  The blocks make decisions
\* nest and make both branches of a decision fail.
Inputs ==
    SystemsUpTo(MaxClauses) \cup {b \cup e : b \in Blocks, e \in SystemsUpTo(1)}

\* All traversal orders of a hash set, as sequences.
RECURSIVE Orders(_)
Orders(S) ==
    IF S = {} THEN {<<>>}
    ELSE UNION {{<<x>> \o p : p \in Orders(S \ {x})} : x \in S}

----------------------------------------------------------------------------
\* dpll.rs: concurrent_dpll_propagate

\* for each_clause in clauses_to_remove { system.remove_clause(..) }
RECURSIVE RemoveAll(_, _)
RemoveAll(system, clauses_to_remove) ==
    IF clauses_to_remove = <<>> THEN system
    ELSE RemoveAll(system \ {Head(clauses_to_remove)}, Tail(clauses_to_remove))

\* Mutant: the reduced clause is not put back into the system.
RECURSIVE ReduceAll_NoReinsert(_, _, _, _)
ReduceAll_NoReinsert(system, clauses_to_reduce, literal, new_units) ==
    IF clauses_to_reduce = <<>>
    THEN [some |-> TRUE, new_units |-> new_units, system |-> system]
    ELSE LET each_clause == Head(clauses_to_reduce)
             reduced     == each_clause \ {0 - literal}
         IN  IF Cardinality(reduced) = 0
             THEN [some |-> FALSE, new_units |-> new_units,
                   system |-> system \ {each_clause}]
             ELSE ReduceAll_NoReinsert(system \ {each_clause},
                      Tail(clauses_to_reduce), literal,
                      IF Cardinality(reduced) = 1
                      THEN new_units \cup {First(reduced)} ELSE new_units)

\* Mutant: an empty clause is reported only when it is the last one reduced
\* (a flag that later iterations overwrite).
RECURSIVE ReduceAll_LateConflict(_, _, _, _)
ReduceAll_LateConflict(system, clauses_to_reduce, literal, new_units) ==
    IF clauses_to_reduce = <<>>
    THEN [some |-> TRUE, new_units |-> new_units, system |-> system]
    ELSE LET each_clause == Head(clauses_to_reduce)
             rest        == Tail(clauses_to_reduce)
             removed     == system \ {each_clause}
             reduced     == each_clause \ {0 - literal}
         IN  IF Cardinality(reduced) = 0
             THEN IF rest = <<>>
                  THEN [some |-> FALSE, new_units |-> new_units,
                        system |-> removed]
                  ELSE ReduceAll_LateConflict(removed, rest, literal, new_units)
             ELSE ReduceAll_LateConflict(removed \cup {reduced}, rest, literal,
                      IF Cardinality(reduced) = 1
                      THEN new_units \cup {First(reduced)} ELSE new_units)

\* for mut each_clause in clauses_to_reduce { .. }: the clause is taken out
\* of the system, loses -literal and is put back; an empty clause ends the
\* call with None, a unit clause yields a new unit.
RECURSIVE ReduceAll(_, _, _, _)
ReduceAll(system, clauses_to_reduce, literal, new_units) ==
    IF clauses_to_reduce = <<>>
    THEN [some |-> TRUE, new_units |-> new_units, system |-> system]
    ELSE LET each_clause == Head(clauses_to_reduce)
             rest        == Tail(clauses_to_reduce)
         IN  IF each_clause \in system
             THEN LET removed == system \ {each_clause}
                      reduced == each_clause \ {0 - literal}
                  IN  IF Cardinality(reduced) = 0
                      THEN [some |-> FALSE, new_units |-> new_units,
                            system |-> removed]
                      ELSE ReduceAll(removed \cup {reduced}, rest, literal,
                                     IF Cardinality(reduced) = 1
                                     THEN new_units \cup {First(reduced)}
                                     ELSE new_units)
             ELSE ReduceAll(system, rest, literal, new_units)

\* Mutant: no clause is selected for reduction.
ToReduce_Nothing(system, literal) == {}

\* Mutant: no clause is selected for removal.
ToRemove_Nothing(system, literal) == {}

\* The scan of lines 16-22 sorts the clauses into those that contain the
\* literal and, of the others, those that contain its negation.
ToRemove(system, literal) == {c \in system : literal \in c}
ToReduce(system, literal) ==
    {c \in system : literal \notin c /\ (0 - literal) \in c}

\* Mutant: the clauses that contain the literal are left in the system.
Propagate_NoRemove(system, literal, clauses_to_remove, clauses_to_reduce) ==
    ReduceAll(system, clauses_to_reduce, literal, {})

\* concurrent_dpll_propagate(system, literal).  The two vectors hold the
\* scanned clauses in the order in which system.clauses.iter() yielded
\* them.  some = FALSE is None.
Propagate(system, literal, clauses_to_remove, clauses_to_reduce) ==
    ReduceAll(RemoveAll(system, clauses_to_remove), clauses_to_reduce,
              literal, {})

----------------------------------------------------------------------------
\* dpll.rs: concurrent_dpll

NoResult == [verdict |-> "none", interpretation |-> {}]
NoProp == [called |-> FALSE, system |-> {}, literal |-> 0, some |-> FALSE,
           new_units |-> {}, after |-> {}]
NoCombine == [done |-> FALSE, some_literal |-> 0, accumulated |-> {},
              received |-> 0,
              pos |-> NoResult, neg |-> NoResult, ret |-> NoResult]

\* The locals of a call of concurrent_dpll at its entry.  Beside the code's
\* locals a call records which of its branches it has dispatched and what
\* each branch sent; branch and worker say which branch of its caller the
\* call is and which thread runs it; start is the system the call was given
\* and quiesced the system it had when it decided.
Call(system, units, thread_count, branch, worker) ==
    [system         |-> system,
     current_units  |-> units,
     revealed_units |-> {},
     interpretation |-> {},
     thread_count   |-> thread_count,
     pc             |-> IF Cardinality(units) > 0 THEN "propagate" ELSE "decide",
     some_literal   |-> 0,
     system2        |-> {},
     channel        |-> <<>>,
     dispatched     |-> {},
     sent           |-> [pos |-> NoResult, neg |-> NoResult],
     branch         |-> branch,
     worker         |-> worker,
     start          |-> system,
     quiesced       |-> {}]

Top == stack[Len(stack)]
Caller == stack[Len(stack) - 1]
Below == SubSeq(stack, 1, Len(stack) - 1)

\* Mutant: a SATISFIABLE +l branch ends the decision, the -l branch is not
\* run.
Return_SkipNeg(r) ==
    IF Len(stack) = 1
    THEN /\ stack' = <<>>
         /\ result' = r
    ELSE /\ stack' = [Below EXCEPT ![Len(stack) - 1] =
                        [Caller EXCEPT
                            !.channel = Append(Caller.channel, r),
                            !.sent = [Caller.sent EXCEPT ![Top.branch] = r],
                            !.pc = IF Caller.pc = "join_pos" /\
                                      r.verdict = "Unsatisfiable"
                                   THEN "spawn_neg" ELSE "combine"]]
         /\ UNCHANGED result

\* Mutant: the branches work on one shared system, so the -l branch gets
\* the system as the +l branch left it.
Return_Shared(r) ==
    IF Len(stack) = 1
    THEN /\ stack' = <<>>
         /\ result' = r
    ELSE /\ stack' = [Below EXCEPT ![Len(stack) - 1] =
                        [Caller EXCEPT
                            !.channel = Append(Caller.channel, r),
                            !.sent = [Caller.sent EXCEPT ![Top.branch] = r],
                            !.system2 = IF Caller.pc = "join_pos"
                                        THEN Top.system ELSE {},
                            !.pc = IF Caller.pc = "join_pos" THEN "spawn_neg"
                                   ELSE "combine"]]
         /\ UNCHANGED result

\* The innermost call returns r: the outermost call's value is the result;
\* a branch sends it on its caller's channel and the caller goes on.
Return(r) ==
    IF Len(stack) = 1
    THEN /\ stack' = <<>>
         /\ result' = r
    ELSE /\ stack' = [Below EXCEPT ![Len(stack) - 1] =
                        [Caller EXCEPT
                            !.channel = Append(Caller.channel, r),
                            !.sent = [Caller.sent EXCEPT ![Top.branch] = r],
                            !.pc = IF Caller.pc = "join_pos" THEN "spawn_neg"
                                   ELSE "combine"]]
         /\ UNCHANGED result

Init ==
    /\ sys0 \in Inputs
    /\ units0 \in IF sys0 = {} THEN SUBSET Lits ELSE {UnitsOf(sys0)}
    /\ budget0 \in {0, MaxBudget}
    /\ stack = <<Call(sys0, units0, budget0, "root", 0)>>
    /\ result = NoResult
    /\ nthreads = 0
    /\ lastProp = NoProp
    /\ lastCombine = NoCombine
    /\ StoreIdle
    /\ DriverIdle

\* One iteration of `for each_unit_literal in current_units` (lines 58-74).
PropagateUnit ==
    /\ stack # <<>>
    /\ Top.pc = "propagate"
    /\ \E each_unit_literal \in Top.current_units :
       \E clauses_to_remove \in Orders(ToRemove(Top.system, each_unit_literal)),
          clauses_to_reduce \in Orders(ToReduce(Top.system, each_unit_literal)) :
       \E p \in {Propagate(Top.system, each_unit_literal,
                           clauses_to_remove, clauses_to_reduce)} :
        LET interpretation == Top.interpretation \cup {each_unit_literal}
            revealed == Top.revealed_units \cup p.new_units
            remaining == Top.current_units \ {each_unit_literal}
        IN  /\ lastProp' = [called |-> TRUE, system |-> Top.system,
                            literal |-> each_unit_literal, some |-> p.some,
                            new_units |-> p.new_units, after |-> p.system]
            /\ IF ~p.some
               THEN Return([verdict |-> "Unsatisfiable",
                            interpretation |-> Top.interpretation])
               ELSE IF Cardinality(p.system) = 0
               THEN Return([verdict |-> "Satisfiable",
                            interpretation |-> interpretation])
               ELSE /\ stack' = [stack EXCEPT ![Len(stack)] =
                        [Top EXCEPT
                           !.system = p.system,
                           !.interpretation = interpretation,
                           !.current_units =
                               IF remaining = {} THEN revealed ELSE remaining,
                           !.revealed_units =
                               IF remaining = {} THEN {} ELSE revealed,
                           !.pc = IF remaining = {} /\ Cardinality(revealed) = 0
                                  THEN "decide" ELSE "propagate"]]
                    /\ UNCHANGED result
    /\ UNCHANGED <<nthreads, sys0, units0, budget0, lastCombine>>
    /\ UNCHANGED storeVars
    /\ UNCHANGED driverVars

\* Mutant: the budget is decremented without the floor at 0.
ChildBudget_NoFloor(thread_count) == thread_count - 2

\* Mutant: a fork costs one unit of budget.
ChildBudget_MinusOne(thread_count) ==
    IF thread_count >= 2 THEN thread_count - 1 ELSE 0

\* Lines 100-113: the thread_count both branches are called with.
ChildBudget(thread_count) ==
    IF thread_count >= 2 THEN thread_count - 2 ELSE 0

\* Lines 81-103 and 109-111: the decision literal is the first literal of
\* the first clause the system yields; the +l branch is spawned in a new
\* thread, which the caller joins at once.  The first unwrap() of line 81
\* panics when the system has no clause; a clause of the system is never
\* empty, because a reduction that empties a clause ends the call.
Decide ==
    /\ stack # <<>>
    /\ Top.pc = "decide"
    /\ IF Top.system = {}
       THEN /\ stack' = <<>>
            /\ result' = [verdict |-> "panic", interpretation |-> {}]
            /\ UNCHANGED nthreads
       ELSE \E first_clause \in Top.system :
              LET some_literal == First(first_clause)
                  budget == ChildBudget(Top.thread_count)
              IN  /\ stack' = Append(
                        [stack EXCEPT ![Len(stack)] =
                            [Top EXCEPT !.some_literal = some_literal,
                                        !.system = {},
                                        !.system2 = Top.system,
                                        !.channel = <<>>,
                                        !.dispatched = {"pos"},
                                        !.quiesced = Top.system,
                                        !.pc = "join_pos"]],
                        Call(Top.system, {some_literal}, budget, "pos",
                             nthreads + 1))
                  /\ nthreads' = nthreads + 1
                  /\ UNCHANGED result
    /\ UNCHANGED <<sys0, units0, budget0, lastProp, lastCombine>>
    /\ UNCHANGED storeVars
    /\ UNCHANGED driverVars

\* Lines 104-107 and 112: after the +l thread was joined, the -l branch
\* runs: in a new thread, joined at once, when thread_count >= 2, and
\* in the calling thread otherwise.
SpawnNeg ==
    /\ stack # <<>>
    /\ Top.pc = "spawn_neg"
    /\ LET parallel == Top.thread_count >= 2
       IN  /\ stack' = Append(
                 [stack EXCEPT ![Len(stack)] =
                     [Top EXCEPT !.system2 = {},
                                 !.dispatched = {"pos", "neg"},
                                 !.pc = "join_neg"]],
                 Call(Top.system2, {0 - Top.some_literal},
                      ChildBudget(Top.thread_count),
                      "neg",
                      IF parallel THEN nthreads + 1 ELSE Top.worker))
           /\ nthreads' = IF parallel THEN nthreads + 1 ELSE nthreads
    /\ UNCHANGED <<result, sys0, units0, budget0, lastProp, lastCombine>>
    /\ UNCHANGED storeVars
    /\ UNCHANGED driverVars

\* Mutant: the first UNSATISFIABLE result decides, the second is not read.
CombineResult_FirstOnly(interpretation, channel) ==
    LET first == channel[1]
    IN  IF first.verdict = "Unsatisfiable"
        THEN [verdict |-> "Unsatisfiable", interpretation |-> {}]
        ELSE [verdict |-> first.verdict,
              interpretation |-> interpretation \cup first.interpretation]

\* Mutant: every SATISFIABLE result on the channel is joined in.
CombineResult_Both(interpretation, channel) ==
    LET first  == channel[1]
        second == channel[2]
    IN  IF first.verdict = "Unsatisfiable"
        THEN IF second.verdict = "Unsatisfiable"
             THEN [verdict |-> "Unsatisfiable",
                   interpretation |-> second.interpretation]
             ELSE [verdict |-> second.verdict,
                   interpretation |->
                       interpretation \cup second.interpretation]
        ELSE [verdict |-> first.verdict,
              interpretation |->
                  interpretation \cup first.interpretation \cup
                  (IF second.verdict = "Satisfiable"
                   THEN second.interpretation ELSE {})]

\* Mutant: two UNSATISFIABLE results leave the verdict at its sentinel.
CombineResult_Unknown(interpretation, channel) ==
    LET first  == channel[1]
        second == channel[2]
    IN  IF first.verdict = "Unsatisfiable"
        THEN IF second.verdict = "Unsatisfiable"
             THEN [verdict |-> "Unknown",
                   interpretation |-> second.interpretation]
             ELSE [verdict |-> second.verdict,
                   interpretation |->
                       interpretation \cup second.interpretation]
        ELSE [verdict |-> first.verdict,
              interpretation |-> interpretation \cup first.interpretation]

\* Mutant: the channel is read from its other end.
CombineResult_Swapped(interpretation, channel) ==
    LET first  == channel[2]
        second == channel[1]
    IN  IF first.verdict = "Unsatisfiable"
        THEN IF second.verdict = "Unsatisfiable"
             THEN [verdict |-> "Unsatisfiable",
                   interpretation |-> second.interpretation]
             ELSE [verdict |-> second.verdict,
                   interpretation |->
                       interpretation \cup second.interpretation]
        ELSE [verdict |-> first.verdict,
              interpretation |-> interpretation \cup first.interpretation]

\* Mutant: two UNSATISFIABLE results return the caller's own interpretation.
CombineResult_UnsatOwn(interpretation, channel) ==
    LET first  == channel[1]
        second == channel[2]
    IN  IF first.verdict = "Unsatisfiable"
        THEN IF second.verdict = "Unsatisfiable"
             THEN [verdict |-> "Unsatisfiable",
                   interpretation |-> interpretation]
             ELSE [verdict |-> second.verdict,
                   interpretation |->
                       interpretation \cup second.interpretation]
        ELSE [verdict |-> first.verdict,
              interpretation |-> interpretation \cup first.interpretation]

\* Lines 117-120: how many results the combiner takes from the channel.
Received(channel) ==
    IF channel[1].verdict = "Unsatisfiable" THEN 2 ELSE 1

\* Lines 116-134: the results are taken from the channel in the order in
\* which they were sent.
CombineResult(interpretation, channel) ==
    LET first == channel[1]
    IN  IF first.verdict = "Unsatisfiable"
        THEN LET second == channel[2]
             IN  IF second.verdict = "Unsatisfiable"
                 THEN [verdict |-> "Unsatisfiable",
                       interpretation |-> second.interpretation]
                 ELSE [verdict |-> second.verdict,
                       interpretation |->
                           interpretation \cup second.interpretation]
        ELSE [verdict |-> first.verdict,
              interpretation |-> interpretation \cup first.interpretation]

Combine ==
    /\ stack # <<>>
    /\ Top.pc = "combine"
    /\ LET r == CombineResult(Top.interpretation, Top.channel)
       IN  /\ lastCombine' = [done |-> TRUE,
                              some_literal |-> Top.some_literal,
                              accumulated |-> Top.interpretation,
                              received |-> Received(Top.channel),
                              pos |-> Top.sent.pos,
                              neg |-> Top.sent.neg,
                              ret |-> r]
           /\ Return(r)
    /\ UNCHANGED <<nthreads, sys0, units0, budget0, lastProp>>
    /\ UNCHANGED storeVars
    /\ UNCHANGED driverVars

Next == PropagateUnit \/ Decide \/ SpawnNeg \/ Combine

Spec == Init /\ [][Next]_vars

\* One thread at a time can take a step (a caller waits in join() for the
\* branch it started), and a thread that can take a step is scheduled.
\* The runs start from the call main.rs makes with a budget of two or more,
\* which takes both arms of `if thread_count >= 2` (the root forks with the
\* budget, the branches below it with none left).
InitFair == Init /\ budget0 = MaxBudget

FairSpec == InitFair /\ [][Next]_vars /\ WF_vars(Next)

----------------------------------------------------------------------------
\* concurrent_dpll_propagate on its own: every input system with every
\* literal, and every order in which the scan can yield the clauses.

InitProp ==
    /\ sys0 \in Inputs
    /\ units0 = {}
    /\ budget0 = 0
    /\ stack = <<>>
    /\ result = NoResult
    /\ nthreads = 0
    /\ \E literal \in Lits :
          lastProp = [NoProp EXCEPT !.system = sys0, !.literal = literal]
    /\ lastCombine = NoCombine
    /\ StoreIdle
    /\ DriverIdle

CallPropagate ==
    /\ ~lastProp.called
    /\ \E clauses_to_remove \in Orders(ToRemove(lastProp.system, lastProp.literal)),
          clauses_to_reduce \in Orders(ToReduce(lastProp.system, lastProp.literal)) :
        LET p == Propagate(lastProp.system, lastProp.literal,
                           clauses_to_remove, clauses_to_reduce)
        IN  lastProp' = [lastProp EXCEPT !.called = TRUE, !.some = p.some,
                                         !.new_units = p.new_units,
                                         !.after = p.system]
    /\ UNCHANGED <<stack, result, nthreads, sys0, units0, budget0, lastCombine>>
    /\ UNCHANGED storeVars
    /\ UNCHANGED driverVars

NextProp == CallPropagate

SpecProp == InitProp /\ [][NextProp]_vars

----------------------------------------------------------------------------
\* Reference notions the claims are stated with.

\* main.rs, lines 197-202: the label printed for a verdict
Label(verdict) ==
    CASE verdict = "Tautology"     -> "TAUTOLOGY"
      [] verdict = "Satisfiable"   -> "SATISFIABLE"
      [] verdict = "Unsatisfiable" -> "UNSATISFIABLE"
      [] verdict = "Unknown"       -> "UNKNOWN"

\* The total assignments: one literal of every variable.
Assignments ==
    {A \in SUBSET Lits : \A v \in 1..NumVars : (v \in A) # ((0 - v) \in A)}

\* A set of literals satisfies a system when every clause holds one of them.
Satisfies(A, system) == \A c \in system : c \cap A # {}

HasModel(system) == \E A \in Assignments : Satisfies(A, system)

\* The outermost call has returned (or panicked).
Done == stack = <<>> /\ result # NoResult

\* What the engine is promised: no empty and no tautological clause, and
\* the units are the literals of the unit clauses.
Contract ==
    /\ \A c \in sys0 : c # {} /\ ~IsTautology(c)
    /\ units0 = UnitsOf(sys0)

\* every result a call has returned so far: sent to a caller or final
Returned ==
    {r \in {result} \cup UNION {{stack[i].sent.pos, stack[i].sent.neg} :
                                   i \in 1..Len(stack)} : r # NoResult}

----------------------------------------------------------------------------
\* C1: under the contract, a SATISFIABLE result carries a model of the
\* original system: every clause of the system the outermost call was given
\* contains a literal of the returned interpretation.
C1_SatIsModel ==
    (Done /\ Contract /\ result.verdict = "Satisfiable")
        => Satisfies(result.interpretation, sys0)

\* a satisfiable verdict found below a decision, for a system of several
\* clauses one of which was a unit
C1_Witness ==
    /\ Done /\ Contract /\ result.verdict = "Satisfiable"
    /\ lastCombine.done /\ units0 # {} /\ Cardinality(sys0) >= 2

\* C2: under the contract, UNSATISFIABLE is returned only for a system
\* that no total assignment of its variables satisfies.
C2_UnsatIsRefuted ==
    (Done /\ Contract /\ result.verdict = "Unsatisfiable") => ~HasModel(sys0)

\* an unsatisfiable verdict reached through a decision
C2_Witness ==
    /\ Done /\ Contract /\ result.verdict = "Unsatisfiable"
    /\ lastCombine.done /\ lastCombine.ret = result

\* C3: under the contract, the interpretation returned with SATISFIABLE by
\* any call never holds a literal and its negation.
C3_Consistent ==
    Contract =>
        \A r \in Returned :
            r.verdict = "Satisfiable"
                => \A l \in r.interpretation : (0 - l) \notin r.interpretation

\* the units accumulated before a decision were joined with a branch's
\* interpretation
C3_Witness ==
    /\ Done /\ Contract /\ result.verdict = "Satisfiable"
    /\ lastCombine.done /\ lastCombine.ret = result
    /\ lastCombine.accumulated # {}

\* C4: under the contract and for a non-empty system, every call at every
\* level returns SATISFIABLE or UNSATISFIABLE, so the label printed for the
\* outermost result is one of TAUTOLOGY, SATISFIABLE, UNSATISFIABLE.
C4_VerdictIsDecided ==
    (Contract /\ sys0 # {}) =>
        \A r \in Returned :
            /\ r.verdict \in ClauseType \ {"Unknown", "Tautology"}
            /\ Label(r.verdict) \in {"TAUTOLOGY", "SATISFIABLE", "UNSATISFIABLE"}

\* the outermost call returned what a combiner made of two branch results
C4_Witness ==
    /\ Done /\ Contract /\ sys0 # {}
    /\ lastCombine.done /\ lastCombine.ret = result

\* C5: concurrent_dpll_propagate(S, l) returns None exactly when the unit
\* clause {-l} is in S; otherwise it returns the literals left over by the
\* clauses that held -l and one more literal, and leaves in S the clauses
\* without l and -l together with the clauses that held -l (and not l),
\* each without -l.
C5_PropagateMatchesReference ==
    lastProp.called =>
        LET S == lastProp.system
            l == lastProp.literal
            touched == {C \in S : (0 - l) \in C /\ l \notin C}
            U == {m \in Lits : \E C \in touched : C \ {0 - l} = {m}}
            kept == {C \in S : l \notin C /\ (0 - l) \notin C}
        IN  /\ (~lastProp.some) <=> ({0 - l} \in S)
            /\ lastProp.some =>
                  /\ lastProp.new_units = U
                  /\ lastProp.after = kept \cup {C \ {0 - l} : C \in touched}
                  /\ \A C \in touched : (C \ {0 - l}) \in lastProp.after

\* a call that removed a clause, reduced another and revealed a unit
C5_Witness ==
    /\ lastProp.called /\ lastProp.some
    /\ lastProp.new_units # {}
    /\ \E C \in lastProp.system : lastProp.literal \in C
    /\ \E C \in lastProp.system :
          (0 - lastProp.literal) \in C /\ Cardinality(C) > 2

\* C6: a call with an empty system returns (SATISFIABLE, {}) whatever
\* units it is given, and does not fail.
C6_EmptySystemIsSat ==
    (Done /\ sys0 = {})
        => result = [verdict |-> "Satisfiable", interpretation |-> {}]

\* C7: the verdict does not depend on the order in which the units of a
\* generation are processed nor on the clause a decision takes first: in
\* every run it is the one verdict that the input system fixes.
C7_VerdictFixedByInput ==
    (Done /\ Contract /\ sys0 # {})
        => result.verdict =
              IF HasModel(sys0) THEN "Satisfiable" ELSE "Unsatisfiable"

\* a run with a decision over a system of four clauses or more, where the
\* first clause can be taken in several ways
C7_Witness ==
    /\ Done /\ Contract /\ Cardinality(sys0) >= 4
    /\ lastCombine.done /\ lastCombine.ret = result
    /\ result.verdict = "Satisfiable"

\* C8 as stated: a SATISFIABLE +l branch decides the result, and whenever
\* the +l branch returned UNSATISFIABLE the result contains -l.
C8_AsStated ==
    lastCombine.done =>
        LET l == lastCombine.some_literal
        IN  /\ lastCombine.pos.verdict = "Satisfiable" =>
                  lastCombine.ret =
                      [verdict |-> "Satisfiable",
                       interpretation |->
                           {l} \cup lastCombine.pos.interpretation
                               \cup lastCombine.accumulated]
            /\ lastCombine.pos.verdict = "Unsatisfiable" =>
                  (0 - l) \in lastCombine.ret.interpretation

\* C8, amended: a SATISFIABLE +l branch decides the result whatever the -l
\* branch returned; when the +l branch returned UNSATISFIABLE and the -l
\* branch SATISFIABLE, the result is SATISFIABLE with the accumulated units
\* and the -l branch's interpretation, and contains -l.
C8_PositiveBranchFirst ==
    lastCombine.done =>
        LET l == lastCombine.some_literal
        IN  /\ lastCombine.pos.verdict = "Satisfiable" =>
                  lastCombine.ret =
                      [verdict |-> "Satisfiable",
                       interpretation |->
                           {l} \cup lastCombine.pos.interpretation
                               \cup lastCombine.accumulated]
            /\ (lastCombine.pos.verdict = "Unsatisfiable" /\
                lastCombine.neg.verdict = "Satisfiable") =>
                  /\ lastCombine.ret =
                        [verdict |-> "Satisfiable",
                         interpretation |->
                             lastCombine.neg.interpretation
                                 \cup lastCombine.accumulated]
                  /\ (0 - l) \in lastCombine.ret.interpretation

\* both branches returned SATISFIABLE with different interpretations, after
\* units had been accumulated
C8_Witness ==
    /\ lastCombine.done
    /\ lastCombine.pos.verdict = "Satisfiable"
    /\ lastCombine.neg.verdict = "Satisfiable"
    /\ lastCombine.pos.interpretation # lastCombine.neg.interpretation
    /\ lastCombine.accumulated # {}

\* C9 as stated: two UNSATISFIABLE branches make the call return
\* UNSATISFIABLE with the empty interpretation.
C9_AsStated ==
    (lastCombine.done /\ lastCombine.pos.verdict = "Unsatisfiable"
                      /\ lastCombine.neg.verdict = "Unsatisfiable")
        => lastCombine.ret = [verdict |-> "Unsatisfiable", interpretation |-> {}]

\* C9, amended: two UNSATISFIABLE branches make the call return
\* UNSATISFIABLE with the interpretation that the -l branch returned.
C9_BothUnsat ==
    (lastCombine.done /\ lastCombine.pos.verdict = "Unsatisfiable"
                      /\ lastCombine.neg.verdict = "Unsatisfiable")
        => lastCombine.ret = [verdict |-> "Unsatisfiable",
                              interpretation |-> lastCombine.neg.interpretation]

\* two branches failed with different interpretations below a call that
\* had accumulated units of its own
C9_Witness ==
    /\ lastCombine.done
    /\ lastCombine.pos.verdict = "Unsatisfiable"
    /\ lastCombine.neg.verdict = "Unsatisfiable"
    /\ lastCombine.pos.interpretation # lastCombine.neg.interpretation
    /\ lastCombine.accumulated # {}

\* C10: with thread_count >= 2 the two branches of a decision run at the
\* same time: while the caller of a decision waits for its +l worker, the
\* -l worker has been dispatched as well.
C10_BranchesRunTogether ==
    \A i \in 1..Len(stack) :
        (stack[i].thread_count >= 2 /\ stack[i].pc = "join_pos")
            => "neg" \in stack[i].dispatched

\* C11: when the combiner of a decision runs, both branches have ended and
\* each has sent exactly one result, so the combiner never waits for a
\* result that is not sent; UNSATISFIABLE is returned only after both
\* results were received.
C11_BothBranchesReported ==
    /\ \A i \in 1..Len(stack) :
          stack[i].pc = "combine" =>
              /\ i = Len(stack)
              /\ stack[i].dispatched = {"pos", "neg"}
              /\ stack[i].channel = <<stack[i].sent.pos, stack[i].sent.neg>>
              /\ NoResult \notin {stack[i].sent.pos, stack[i].sent.neg}
              /\ Received(stack[i].channel) <= Len(stack[i].channel)
    /\ (lastCombine.done /\ lastCombine.ret.verdict = "Unsatisfiable")
          => lastCombine.received = 2

\* a combiner that returned SATISFIABLE from the first result while the
\* second branch had reported UNSATISFIABLE
C11_Witness ==
    /\ lastCombine.done
    /\ lastCombine.received = 1
    /\ lastCombine.neg.verdict = "Unsatisfiable"

\* C12: the two branches of a decision each start from the system the
\* caller had when it decided, and nothing a branch or its descendants do
\* changes the copy kept for the sibling; the caller has handed its system
\* to the branch that runs, so every system has one owner.
C12_BranchIsolation ==
    /\ \A i \in 1..(Len(stack) - 1) :
          /\ stack[i + 1].start = stack[i].quiesced
          /\ stack[i].system = {}
          /\ stack[i].pc = "join_neg" => stack[i].system2 = {}
    /\ \A i \in 1..Len(stack) :
          stack[i].pc \in {"join_pos", "spawn_neg"}
              => stack[i].system2 = stack[i].quiesced

\* the -l branch has propagated in its own system after the +l branch had
\* propagated in its system and failed
C12_Witness ==
    \E i \in 1..(Len(stack) - 1) :
        /\ stack[i + 1].branch = "neg"
        /\ stack[i + 1].system # stack[i + 1].start
        /\ stack[i].sent.pos.verdict = "Unsatisfiable"
        /\ stack[i].sent.pos.interpretation # {}

\* the variables of a system
VarsOf(system) == {IF l < 0 THEN 0 - l ELSE l : l \in UNION system}

\* the outermost call has returned a verdict
Finished == Done /\ result.verdict \in {"Satisfiable", "Unsatisfiable"}

\* A branch that has propagated its decision literal holds fewer variables
\* than its caller held at the decision, the decided one being gone, and
\* there are no more nested decisions than variables.
C13_VariablesDecrease ==
    /\ \A i \in 1..(Len(stack) - 1) :
          (stack[i + 1].pc \in {"propagate", "decide"} /\
           stack[i + 1].interpretation # {}) =>
              LET here  == VarsOf(stack[i + 1].system)
                  above == VarsOf(stack[i].quiesced)
                  l     == stack[i].some_literal
              IN  /\ here \subseteq above \ {l, 0 - l}
                  /\ Cardinality(here) < Cardinality(above)
    /\ Len(stack) - 1 <= Cardinality(VarsOf(sys0))

Forked == {i \in 1..Len(stack) : stack[i].dispatched # {}}

\* C14: a call with budget b >= 2 gives its branches b - 2 and a call with
\* b < 2 gives them 0; the budget is never negative, never grows down the
\* recursion, and at most floor(initial / 2) nested decisions fork with a
\* budget of two or more.
C14_BudgetDecreases ==
    /\ \A i \in 1..(Len(stack) - 1) :
          /\ stack[i].thread_count >= 2 =>
                stack[i + 1].thread_count = stack[i].thread_count - 2
          /\ stack[i].thread_count < 2 => stack[i + 1].thread_count = 0
          /\ stack[i + 1].thread_count <= stack[i].thread_count
    /\ \A i \in 1..Len(stack) :
          /\ stack[i].thread_count >= 0
          /\ stack[i].thread_count <= budget0
    /\ Cardinality({i \in Forked : stack[i].thread_count >= 2}) * 2 <= budget0

\* a branch of a branch: the outermost call forked with a budget of two or
\* more and its branch with a budget below two
C14_Witness ==
    /\ Len(stack) >= 3
    /\ stack[1].thread_count >= 2
    /\ stack[2].thread_count < 2
    /\ stack[3].branch = "neg"

\* C15: when the budget of a call is at most 1, both branches of its
\* decision run in the worker of the call: a branch on the stack directly
\* above such a call has the caller's worker.
C15_NoWorkerWhenExhausted ==
    \A i \in 1..(Len(stack) - 1) :
        stack[i].thread_count <= 1 => stack[i + 1].worker = stack[i].worker

----------------------------------------------------------------------------
\* The clause and system store on its own (cnf_system.rs).  The `literals`
\* of a CNFClause are a BTreeSet<isize>: the model keeps them as the
\* sequence the set is traversed in, strictly increasing.  The `clauses` of
\* a CNFSystem are a HashSet<CNFClause>, which tells its members apart by
\* the derived Hash and Eq of CNFClause.

\* the literals the operations are called with (zero among them)
StoreLits == (0 - MaxLit)..MaxLit

Range(seq) == {seq[i] : i \in 1..Len(seq)}

\* CNFClause::new()
ClauseNew == <<>>

\* CNFClause::empty(): a fresh set into which 0 is inserted
ClauseEmpty == <<0>>

\* CNFClause::contains
ClauseContains(literals, literal) ==
    \E i \in 1..Len(literals) : literals[i] = literal

\* CNFClause::len
ClauseLen(literals) == Len(literals)

\* Mutant: the literal is inserted in its place whether or not it is there.
ClauseInsert_Dup(literals, x) ==
    LET k == Cardinality({i \in 1..Len(literals) : literals[i] < x})
    IN  SubSeq(literals, 1, k) \o <<x>> \o
        SubSeq(literals, k + 1, Len(literals))

\* Mutant: a new literal is put at the end, in the order of arrival.
ClauseInsert_Unsorted(literals, x) ==
    IF ClauseContains(literals, x) THEN literals ELSE Append(literals, x)

\* self.literals.insert(x) of CNFClause::add: a literal that is present
\* leaves the set as it is, a new one takes its place in the order.
ClauseInsert(literals, x) ==
    IF ClauseContains(literals, x)
    THEN literals
    ELSE LET k == Cardinality({i \in 1..Len(literals) : literals[i] < x})
         IN  SubSeq(literals, 1, k) \o <<x>> \o
             SubSeq(literals, k + 1, Len(literals))

\* self.literals.remove(&literal) of CNFClause::remove
ClauseRemove(literals, x) == SelectSeq(literals, LAMBDA y : y # x)

\* Mutant: the literal itself is looked up, not its negation.
ClauseIsTautology_SameSign(literals) ==
    \E i \in 1..Len(literals) :
        literals[i] < 0 /\ ClauseContains(literals, literals[i])

\* CNFClause::is_tautology: the loop over the negative literals stops at
\* the first whose negation the clause contains.
ClauseIsTautology(literals) ==
    \E i \in 1..Len(literals) :
        literals[i] < 0 /\ ClauseContains(literals, 0 - literals[i])

\* Mutant: two clauses of the same length are equal.
ClauseEq_Len(a, b) == Len(a) = Len(b)

\* #[derive(PartialEq, Eq)] on CNFClause: the two sets have the same length
\* and the same literals, compared in the order of traversal.
ClauseEq(a, b) ==
    /\ Len(a) = Len(b)
    /\ \A i \in 1..Len(a) : a[i] = b[i]

\* #[derive(Hash)] on CNFClause: what is fed to the hasher, the length of
\* the set and then its literals in the order of traversal.
ClauseHash(a) == <<Len(a)>> \o a

\* CNFSystem::contains
SystemContains(system, c) == \E d \in system : ClauseEq(d, c)

\* CNFSystem::len
SystemLen(system) == Cardinality(system)

\* The engine is not running.
EngineIdle ==
    /\ stack = <<>>
    /\ result = NoResult
    /\ nthreads = 0
    /\ sys0 = {}
    /\ units0 = {}
    /\ budget0 = 0
    /\ lastProp = NoProp
    /\ lastCombine = NoCombine

\* the clause an operation acts on, and the set it denotes
ClauseOf(which) == IF which = 1 THEN clause ELSE clause2
LitsOf(which) == IF which = 1 THEN ghost.lits ELSE ghost.lits2

\* CNFClause::add (lines 73-78): panics on 0, otherwise inserts and returns
\* whether the literal was new.  A panic ends the run.
Add(which, literal) ==
    /\ ~last.panicked
    /\ LET c == ClauseOf(which)
           g == LitsOf(which)
       IN  IF literal = 0
           THEN /\ last' = [op |-> "add", which |-> which, literal |-> 0,
                            ret |-> FALSE, panicked |-> TRUE,
                            present |-> 0 \in g, before |-> c]
                /\ UNCHANGED <<clause, clause2, ghost>>
           ELSE /\ last' = [op |-> "add", which |-> which,
                            literal |-> literal,
                            ret |-> ~ClauseContains(c, literal),
                            panicked |-> FALSE,
                            present |-> literal \in g, before |-> c]
                /\ clause' = IF which = 1 THEN ClauseInsert(c, literal)
                             ELSE clause
                /\ clause2' = IF which = 2 THEN ClauseInsert(c, literal)
                              ELSE clause2
                /\ ghost' =
                     IF which = 1
                     THEN [ghost EXCEPT
                             !.lits = @ \cup {literal},
                             !.asc = @ /\ \A m \in g : m < literal]
                     ELSE [ghost EXCEPT
                             !.lits2 = @ \cup {literal},
                             !.asc2 = @ /\ \A m \in g : m < literal]
    /\ UNCHANGED <<clauses, ctor, lastSys>>
    /\ UNCHANGED engineVars
    /\ UNCHANGED driverVars

\* CNFClause::remove (lines 81-83): returns whether the literal was there.
Remove(which, literal) ==
    /\ ~last.panicked
    /\ LET c == ClauseOf(which)
           g == LitsOf(which)
       IN  /\ last' = [op |-> "remove", which |-> which, literal |-> literal,
                       ret |-> ClauseContains(c, literal),
                       panicked |-> FALSE,
                       present |-> literal \in g, before |-> c]
           /\ clause' = IF which = 1 THEN ClauseRemove(c, literal) ELSE clause
           /\ clause2' = IF which = 2 THEN ClauseRemove(c, literal)
                         ELSE clause2
           /\ ghost' = IF which = 1
                       THEN [ghost EXCEPT !.lits = @ \ {literal}]
                       ELSE [ghost EXCEPT !.lits2 = @ \ {literal}]
    /\ UNCHANGED <<clauses, ctor, lastSys>>
    /\ UNCHANGED engineVars
    /\ UNCHANGED driverVars

\* A call of CNFClause::is_tautology (&self).
IsTautologyCall(which) ==
    /\ ~last.panicked
    /\ last' = [op |-> "is_tautology", which |-> which, literal |-> 0,
                ret |-> ClauseIsTautology(ClauseOf(which)),
                panicked |-> FALSE, present |-> FALSE,
                before |-> ClauseOf(which)]
    /\ UNCHANGED <<clause, clause2, clauses, ctor, ghost, lastSys>>
    /\ UNCHANGED engineVars
    /\ UNCHANGED driverVars

\* One clause made by either constructor, then any operations on it.
InitClause ==
    /\ EngineIdle
    /\ DriverIdle
    /\ ctor \in {"new", "empty"}
    /\ clause = IF ctor = "new" THEN ClauseNew ELSE ClauseEmpty
    /\ clause2 = ClauseNew
    /\ clauses = {}
    /\ ghost = [NoGhost EXCEPT !.lits = IF ctor = "new" THEN {} ELSE {0}]
    /\ last = NoLast
    /\ lastSys = NoLastSys

NextClause ==
    \/ \E literal \in StoreLits : Add(1, literal)
    \/ \E literal \in StoreLits : Remove(1, literal)
    \/ IsTautologyCall(1)

SpecClause == InitClause /\ [][NextClause]_vars

\* Two clauses made by new(), each built by add() calls in any order.
InitEq == EngineIdle /\ StoreIdle /\ DriverIdle

NextEq ==
    \E which \in {1, 2}, literal \in StoreLits \ {0} : Add(which, literal)

SpecEq == InitEq /\ [][NextEq]_vars

\* the sequences of add() calls that build a clause handed to a system
AddSeqs ==
    UNION {[1..n -> ((0 - MaxSysLit)..MaxSysLit) \ {0}] : n \in 0..MaxAdds}

\* The clause the parser builds (main.rs lines 158-178): new(), then one
\* add() for every literal of the line.
RECURSIVE Build(_)
Build(adds) ==
    IF adds = <<>> THEN ClauseNew
    ELSE ClauseInsert(Build(SubSeq(adds, 1, Len(adds) - 1)), adds[Len(adds)])

\* every literal of the sequence is greater than those before it
Ascending(adds) == \A i, j \in 1..Len(adds) : i < j => adds[i] < adds[j]

\* CNFSystem::add_clause (lines 226-228): HashSet::insert, which keeps the
\* set as it is when it holds an equal clause and returns whether it did
\* not.  The system is kept to MaxStore different clauses.
AddClause ==
    \E adds \in AddSeqs : \E c \in {Build(adds)} :
        LET content == Range(adds)
        IN  /\ Cardinality(ghost.clauses \cup {content}) <= MaxStore
            /\ lastSys' = [op |-> "add_clause", clause |-> c,
                           ret |-> ~SystemContains(clauses, c),
                           present |-> content \in ghost.clauses,
                           before |-> clauses, asc |-> Ascending(adds)]
            /\ clauses' = IF SystemContains(clauses, c) THEN clauses
                          ELSE clauses \cup {c}
            /\ ghost' = [ghost EXCEPT !.clauses = @ \cup {content}]
            /\ UNCHANGED <<clause, clause2, ctor, last>>
            /\ UNCHANGED engineVars
            /\ UNCHANGED driverVars

\* CNFSystem::remove_clause (lines 230-232): HashSet::remove, which takes
\* out the clause equal to the argument and returns whether there was one.
RemoveClause ==
    \E adds \in AddSeqs : \E c \in {Build(adds)} :
        LET content == Range(adds)
        IN  /\ lastSys' = [op |-> "remove_clause", clause |-> c,
                           ret |-> SystemContains(clauses, c),
                           present |-> content \in ghost.clauses,
                           before |-> clauses, asc |-> Ascending(adds)]
            /\ clauses' = {d \in clauses : ~ClauseEq(d, c)}
            /\ ghost' = [ghost EXCEPT !.clauses = @ \ {content}]
            /\ UNCHANGED <<clause, clause2, ctor, last>>
            /\ UNCHANGED engineVars
            /\ UNCHANGED driverVars

\* A system made by CNFSystem::new(None), then any operations on it.
InitSystem == EngineIdle /\ StoreIdle /\ DriverIdle

NextSystem == AddClause \/ RemoveClause

SpecSystem == InitSystem /\ [][NextSystem]_vars

----------------------------------------------------------------------------
\* C16: after any add and remove calls on a clause, its literals are the
\* set those operations denote, add returned true iff the literal was not
\* in that set, remove returned true iff it was, and len() is the
\* cardinality of the set.
C16_ClauseIsItsSet ==
    /\ Range(clause) = ghost.lits
    /\ ClauseLen(clause) = Cardinality(ghost.lits)
    /\ (last.op = "add" /\ ~last.panicked) => (last.ret <=> ~last.present)
    /\ last.op = "remove" => (last.ret <=> last.present)

\* a clause from new() holding two literals, to which a literal it holds
\* was added again
C16_Witness ==
    /\ ctor = "new"
    /\ last.op = "add"
    /\ last.present
    /\ ~last.ret
    /\ ClauseLen(clause) = 2

\* C17: zero is not a member of a clause made by a constructor and any
\* add and remove calls.
C17_ZeroNeverMember == ~ClauseContains(clause, 0)

\* C18: two clauses built by add calls are equal iff they denote the same
\* set of literals, whatever the order and the repetitions of the calls,
\* and equal clauses feed the hasher the same.
C18_EqualByContent ==
    /\ ClauseEq(clause, clause2) <=> (ghost.lits = ghost.lits2)
    /\ (ghost.lits = ghost.lits2) => ClauseHash(clause) = ClauseHash(clause2)
    /\ (ghost.lits # ghost.lits2) => ~ClauseEq(clause2, clause)

\* the same two literals, added to one clause in increasing order and to
\* the other not, the last call repeating a literal
C18_Witness ==
    /\ ghost.lits = ghost.lits2
    /\ Cardinality(ghost.lits) = 2
    /\ ghost.asc
    /\ ~ghost.asc2
    /\ last.which = 2
    /\ last.present

C20_SystemIsSetOfContents ==
    /\ {Range(c) : c \in clauses} = ghost.clauses
    /\ SystemLen(clauses) = Cardinality(ghost.clauses)
    /\ lastSys.op = "add_clause" =>
          /\ lastSys.ret <=> ~lastSys.present
          /\ lastSys.present =>
                /\ clauses = lastSys.before
                /\ SystemLen(clauses) = SystemLen(lastSys.before)
    /\ lastSys.op = "remove_clause" =>
          /\ lastSys.ret <=> lastSys.present
          /\ ~lastSys.present => clauses = lastSys.before

\* a clause of two literals, built by add calls that were not in
\* increasing order, is added to a system that holds an equal clause
C20_Witness ==
    /\ lastSys.op = "add_clause"
    /\ lastSys.present
    /\ ~lastSys.asc
    /\ ClauseLen(lastSys.clause) = 2
    /\ SystemLen(clauses) = 2

----------------------------------------------------------------------------
\* main() (main.rs): the loop that reads the clause lines into a system and
\* its units, and the call of the engine on them.  A line is the sequence
\* of the integers of its words; a line of no word is a blank line.

\* the thread_count main() calls the engine with (line 197)
MainBudget == 16

\* the lines of the input: at most MaxAdds words, each in -MaxLit..MaxLit
Lines == UNION {[1..n -> StoreLits] : n \in 0..MaxAdds}

\* Mutant: every literal of the line is added without looking for its
\* negation.
RECURSIVE ParseWords_NoTautologyCheck(_, _, _)
ParseWords_NoTautologyCheck(words, i, current_clause) ==
    IF i > Len(words) \/ words[i] = 0
    THEN [tautology |-> FALSE, clause |-> current_clause]
    ELSE ParseWords_NoTautologyCheck(words, i + 1,
             ClauseInsert(current_clause, words[i]))

\* for each_word in words (lines 160-178), from the i-th word on: a 0 ends
\* the clause, a literal whose negation is in the clause makes the line a
\* tautology and ends it, any other literal is added.
RECURSIVE ParseWords(_, _, _)
ParseWords(words, i, current_clause) ==
    IF i > Len(words) \/ words[i] = 0
    THEN [tautology |-> FALSE, clause |-> current_clause]
    ELSE IF ClauseContains(current_clause, 0 - words[i])
    THEN [tautology |-> TRUE, clause |-> current_clause]
    ELSE ParseWords(words, i + 1, ClauseInsert(current_clause, words[i]))

\* What a line denotes: the literals before its first 0, and whether a
\* literal and its negation are among them.
LineLits(words) ==
    {words[i] : i \in {j \in 1..Len(words) : \A k \in 1..j : words[k] # 0}}

LineIsTautology(words) ==
    \E l \in LineLits(words) : (0 - l) \in LineLits(words)

\* The clauses of the parser's system as the engine sees them.
AsSets(system) == {Range(c) : c \in system}

\* One iteration of 'next_line (lines 145-185) on a clause line: a
\* tautological line sets contains_tautologies and is dropped; a clause
\* with a literal is added to the system, and its literal to the units when
\* it has one only.
ReadLine ==
    /\ main.pc = "read"
    /\ main.nlines < MaxLines
    /\ \E words \in Lines : \E p \in {ParseWords(words, 1, ClauseNew)} :
          main' = [main EXCEPT
             !.nlines = @ + 1,
             !.contains_tautologies = @ \/ p.tautology,
             !.units = IF ~p.tautology /\ ClauseLen(p.clause) = 1
                       THEN @ \cup {p.clause[1]} ELSE @,
             !.system = IF ~p.tautology /\ ClauseLen(p.clause) > 0
                           /\ ~SystemContains(@, p.clause)
                        THEN @ \cup {p.clause} ELSE @,
             !.seen_tautology = @ \/ LineIsTautology(words),
             !.contents = IF ~LineIsTautology(words) /\ LineLits(words) # {}
                          THEN @ \cup {LineLits(words)} ELSE @]
    /\ UNCHANGED engineVars
    /\ UNCHANGED storeVars
    /\ UNCHANGED basic

\* Mutant: a system without clauses is always reported as a tautology.
Shortcut_AlwaysTautology(len, contains_tautologies) ==
    IF len = 0 THEN "TAUTOLOGY" ELSE "engine"

\* Mutant: the engine is called whenever a tautological line was read.
Shortcut_EngineAfterTautology(len, contains_tautologies) ==
    IF len = 0 /\ ~contains_tautologies THEN "usage error" ELSE "engine"

\* Lines 187-197: what main() does with a system of len clauses.
Shortcut(len, contains_tautologies) ==
    IF len = 0
    THEN IF contains_tautologies THEN "TAUTOLOGY" ELSE "usage error"
    ELSE "engine"

\* The end of the input (lines 187-197): TAUTOLOGY is printed, or the
\* program exits with code 22, or concurrent_dpll is called with the
\* system, the units and a thread_count of 16.
Eof ==
    /\ main.pc = "read"
    /\ LET what == Shortcut(SystemLen(main.system), main.contains_tautologies)
       IN  IF what = "engine"
           THEN /\ main' = [main EXCEPT !.pc = "run"]
                /\ sys0' = AsSets(main.system)
                /\ units0' = main.units
                /\ budget0' = MainBudget
                /\ stack' = <<Call(AsSets(main.system), main.units,
                                   MainBudget, "root", 0)>>
                /\ UNCHANGED <<result, nthreads, lastProp, lastCombine>>
           ELSE /\ main' = [main EXCEPT
                              !.pc = "exit",
                              !.outcome = what,
                              !.code = IF what = "TAUTOLOGY" THEN 0 ELSE 22]
                /\ UNCHANGED engineVars
    /\ UNCHANGED storeVars
    /\ UNCHANGED basic

\* Lines 197-202: the engine has returned and the label of its verdict is
\* printed.
PrintVerdict ==
    /\ main.pc = "run"
    /\ stack = <<>>
    /\ result # NoResult
    /\ main' = [main EXCEPT
                  !.pc = "exit",
                  !.outcome = IF result.verdict \in ClauseType
                              THEN Label(result.verdict) ELSE "panic",
                  !.code = IF result.verdict \in ClauseType THEN 0 ELSE 101]
    /\ UNCHANGED engineVars
    /\ UNCHANGED storeVars
    /\ UNCHANGED basic

InitMain == EngineIdle /\ StoreIdle /\ DriverIdle

NextMain ==
    \/ ReadLine
    \/ Eof
    \/ PropagateUnit
    \/ Decide
    \/ SpawnNeg
    \/ Combine
    \/ PrintVerdict

SpecMain == InitMain /\ [][NextMain]_vars

----------------------------------------------------------------------------
\* C21: whatever lines were read, the parser's system has no tautological
\* and no empty clause, it holds the clauses the lines denote, its units
\* are the literals of its unit clauses, and the engine is called with this
\* system and these units.
C21_ParserContract ==
    /\ \A c \in main.system :
          /\ ClauseLen(c) > 0
          /\ ~\E l \in Range(c) : (0 - l) \in Range(c)
    /\ main.units = {l \in StoreLits : <<l>> \in main.system}
    /\ AsSets(main.system) = main.contents
    /\ main.pc = "run" =>
          /\ sys0 = main.contents
          /\ units0 = {l \in StoreLits : {l} \in sys0}
          /\ \A c \in sys0 : c # {} /\ ~\E l \in c : (0 - l) \in c

\* the engine runs on a system with a unit clause and a clause of two
\* literals
C21_Witness ==
    /\ main.pc = "run"
    /\ stack # <<>>
    /\ main.units # {}
    /\ \E c \in main.system : ClauseLen(c) = 2

\* C22: a system without clauses after a tautological line gives TAUTOLOGY
\* and one after no tautological line gives the usage error with exit code
\* 22, in both cases without a call of the engine; the engine is only
\* called with a system that has a clause.
C22_TautologyShortcut ==
    /\ (main.pc = "exit" /\ main.contents = {}) =>
          /\ EngineIdle
          /\ main.seen_tautology =>
                main.outcome = "TAUTOLOGY" /\ main.code = 0
          /\ ~main.seen_tautology =>
                main.outcome = "usage error" /\ main.code = 22
    /\ ~EngineIdle => (main.contents # {} /\ sys0 # {})
    /\ (main.pc = "exit" /\ main.contents # {}) => ~EngineIdle

\* two lines were read, one of them a tautology and none a clause, and
\* TAUTOLOGY was printed
C22_Witness ==
    /\ main.pc = "exit"
    /\ main.outcome = "TAUTOLOGY"
    /\ main.nlines = 2
    /\ main.system = {}

\* the calls that have taken their decision literal
Decided ==
    {i \in 1..Len(stack) :
        stack[i].pc \in {"join_pos", "spawn_neg", "join_neg", "combine"}}

\* C23: under the contract and on a system with a clause, a call that
\* reaches the decision holds a system with a clause, without an empty and
\* without a unit clause, that mentions no variable of a literal of its
\* interpretation; the decision literal it takes is the least literal of a
\* clause of that system and its variable is not in the interpretation.
C23_DecisionPoint ==
    (Contract /\ sys0 # {}) =>
        /\ \A i \in 1..Len(stack) :
              stack[i].pc = "decide" =>
                  /\ stack[i].system # {}
                  /\ \A c \in stack[i].system : Cardinality(c) >= 2
                  /\ \A l \in stack[i].interpretation :
                        /\ l \notin UNION stack[i].system
                        /\ (0 - l) \notin UNION stack[i].system
                  /\ stack[i].current_units = {}
        /\ \A i \in Decided :
              /\ \E c \in stack[i].quiesced :
                    /\ stack[i].some_literal \in c
                    /\ \A m \in c : stack[i].some_literal <= m
              /\ stack[i].some_literal # 0
              /\ stack[i].some_literal \notin stack[i].interpretation
              /\ (0 - stack[i].some_literal) \notin stack[i].interpretation
        /\ result.verdict # "panic"

\* a branch that has propagated its literal is at a decision of its own
C23_Witness ==
    /\ Contract
    /\ Len(stack) >= 2
    /\ Top.pc = "decide"
    /\ Top.interpretation # {}
    /\ Top.system # Top.start

----------------------------------------------------------------------------
\* The sequential engine (DPLL.rs).  Where it iterates over the hash set of
\* the clauses, every order is an outcome: the operators yield the set of
\* the results the call can return.

\* Mutant: every reduction counts as a conflict, whether or not it empties
\* the clause.
RECURSIVE BasicReduceAll_AnyReduction(_, _, _, _)
BasicReduceAll_AnyReduction(system, clauses_to_reduce, literal, no_empty_clauses) ==
    IF clauses_to_reduce = <<>>
    THEN [ok |-> no_empty_clauses, system |-> system]
    ELSE LET each_clause == Head(clauses_to_reduce)
             reduced     == each_clause \ {0 - literal}
         IN  IF each_clause \in system
             THEN BasicReduceAll_AnyReduction(
                      (system \ {each_clause}) \cup {reduced},
                      Tail(clauses_to_reduce), literal, FALSE)
             ELSE BasicReduceAll_AnyReduction(system, Tail(clauses_to_reduce),
                      literal, no_empty_clauses)

\* for mut each_clause in clauses_to_reduce (lines 23-33): a clause that is
\* still in the system is taken out, loses -literal and is put back, empty
\* or not; no_empty_clauses stays false once a clause was emptied.
RECURSIVE BasicReduceAll(_, _, _, _)
BasicReduceAll(system, clauses_to_reduce, literal, no_empty_clauses) ==
    IF clauses_to_reduce = <<>>
    THEN [ok |-> no_empty_clauses, system |-> system]
    ELSE LET each_clause == Head(clauses_to_reduce)
             reduced     == each_clause \ {0 - literal}
         IN  IF each_clause \in system
             THEN BasicReduceAll((system \ {each_clause}) \cup {reduced},
                      Tail(clauses_to_reduce), literal,
                      IF no_empty_clauses THEN reduced # {} ELSE FALSE)
             ELSE BasicReduceAll(system, Tail(clauses_to_reduce), literal,
                      no_empty_clauses)

\* basic_dpll_propagate(system, literal), for every order in which the
\* scan of lines 13-19 can fill the two vectors: the flag it returns and
\* the system it leaves.
BasicPropagate(system, literal) ==
    {BasicReduceAll(RemoveAll(system, clauses_to_remove), clauses_to_reduce,
                    literal, TRUE) :
        clauses_to_remove \in Orders({c \in system : literal \in c}),
        clauses_to_reduce \in
            Orders({c \in system : literal \notin c /\ (0 - literal) \in c})}

\* basic_dpll_get_unit_literal: the literal of the first unit clause the
\* iteration meets, any of them; none when the set is empty.
BasicUnitLiterals(system) ==
    {l \in UNION system : {l} \in system}

\* basic_dpll(system): the results it can return.  In the loop (lines
\* 54-63) the interpretation is empty: a literal is only inserted on the
\* way out.  Without a unit clause (lines 67-105) the call is repeated on
\* the system with the clause {some_literal}, and when that is
\* UNSATISFIABLE on the copy with {-some_literal}.  The unwrap() of line
\* 71 panics on a system without clauses.
RECURSIVE BasicDpll(_)
BasicDpll(system) ==
    IF BasicUnitLiterals(system) # {}
    THEN UNION {UNION {
             IF ~p.ok
             THEN {[verdict |-> "Unsatisfiable", interpretation |-> {}]}
             ELSE IF Cardinality(p.system) = 0
             THEN {[verdict |-> "Satisfiable", interpretation |-> {literal}]}
             ELSE BasicDpll(p.system)
           : p \in BasicPropagate(system, literal)}
         : literal \in BasicUnitLiterals(system)}
    ELSE IF system = {}
    THEN {[verdict |-> "panic", interpretation |-> {}]}
    ELSE UNION {UNION {
             IF r.verdict = "Unsatisfiable"
             THEN {IF r2.verdict = "Satisfiable"
                   THEN [verdict |-> "Satisfiable",
                         interpretation |->
                            {0 - First(c)} \cup r2.interpretation]
                   ELSE r2
                   : r2 \in BasicDpll(system \cup {{0 - First(c)}})}
             ELSE {[verdict |-> r.verdict,
                    interpretation |-> {First(c)} \cup r.interpretation]}
           : r \in BasicDpll(system \cup {{First(c)}})}
         : c \in system}

\* what basic_dpll can return for every input system
BasicResults == [system \in Inputs |-> BasicDpll(system)]

\* basic_dpll is called on the system the engine was given, after the
\* engine has returned.
CallBasic ==
    /\ stack = <<>>
    /\ result # NoResult
    /\ ~basic.called
    /\ \E r \in BasicResults[sys0] :
          basic' = [called |-> TRUE, verdict |-> r.verdict,
                    interpretation |-> r.interpretation]
    /\ UNCHANGED engineVars
    /\ UNCHANGED storeVars
    /\ UNCHANGED main

NextEquiv ==
    \/ PropagateUnit
    \/ Decide
    \/ SpawnNeg
    \/ Combine
    \/ CallBasic

\* Both engines on every input system, with every budget.
SpecEquiv == Init /\ [][NextEquiv]_vars

\* C24: on a system with a clause, under the contract, basic_dpll and
\* concurrent_dpll return the same verdict, whatever the budget and the
\* orders in which the hash sets are traversed.
C24_SameVerdict ==
    (basic.called /\ Contract /\ sys0 # {}) =>
        /\ basic.verdict = result.verdict
        /\ basic.verdict \in {"Satisfiable", "Unsatisfiable"}

\* both return SATISFIABLE, the concurrent engine with the propagated unit
\* literals in its interpretation and basic_dpll without them
C24_Witness ==
    /\ basic.called
    /\ Contract
    /\ basic.verdict = "Satisfiable"
    /\ result.verdict = "Satisfiable"
    /\ basic.interpretation # result.interpretation
    /\ budget0 = MaxBudget

====
